---- MODULE Spec2Model ----
(***************************************************************************)
(* Model of the bird-observation pipeline of app.py: load_data reads two   *)
(* multi-sheet workbooks, preprocess_data outer-joins the two tables on    *)
(* AcceptedTSN, fills missing values by column dtype and parses the        *)
(* date/time columns, and the module-level script runs the report          *)
(* sections on the result.  The dashboard of birds.py is modelled beside   *)
(* it: load_and_preprocess_data reads two CSV files and puts the tables    *)
(* side by side, and the script stops unless the result has rows.          *)
(*                                                                         *)
(* A DataFrame is a record [none, cols, dtypes, rows]: cols is the column  *)
(* index, dtypes the parallel sequence of column dtypes, rows a sequence   *)
(* of cell sequences parallel to cols.  A cell is a record [k, n, s]: its  *)
(* kind, its numeric payload and its string payload.                       *)
(***************************************************************************)
EXTENDS Integers, Sequences, FiniteSets, TLC

VARIABLES
    src_forest,      \* the forest workbook: [status, sheets]
    src_grassland,   \* the grassland workbook: [status, sheets]
    forest_df,       \* forest table (result of load_data / argument df_forest)
    grassland_df,    \* grassland table (result of load_data / argument df_grassland)
    merged_df,       \* the local merged_df of preprocess_data
    processed_df,    \* what preprocess_data returned
    filtered_df,     \* the module-level filtered_df of the temporal section
    FOREST_FILE,     \* birds.py: the forest CSV file: [status, cols, rows]
    GRASSLAND_FILE,  \* birds.py: the grassland CSV file: [status, cols, rows]
    MERGED_DF,       \* birds.py: first result of load_and_preprocess_data
    FOREST_DF,       \* birds.py: second result of load_and_preprocess_data
    GRASSLAND_DF,    \* birds.py: third result of load_and_preprocess_data
    charts,          \* birds.py: the charts drawn so far: [title, data]
    pc,              \* position in the script
    exc,             \* the uncaught exception, "none" while there is none
    ui               \* the streamlit outputs so far, in order

vars == <<src_forest, src_grassland, forest_df, grassland_df, merged_df,
          processed_df, filtered_df, FOREST_FILE, GRASSLAND_FILE, MERGED_DF,
          FOREST_DF, GRASSLAND_DF, charts, pc, exc, ui>>

\* the state of app.py other than pc and ui, and the state of birds.py
app_vars == <<src_forest, src_grassland, forest_df, grassland_df, merged_df,
              processed_df, filtered_df, exc>>

birds_vars == <<FOREST_FILE, GRASSLAND_FILE, MERGED_DF, FOREST_DF, GRASSLAND_DF, charts>>

(***************************************************************************)
(* Bounds                                                                  *)
(***************************************************************************)
MaxRows == 2      \* rows of a table handed to preprocess_data
MaxSheets == 2    \* sheets of a workbook

\* birds.py lines 80 and 132: the length of the top lists
TopN == 10

(***************************************************************************)
(* Cells                                                                   *)
(***************************************************************************)
NA == [k |-> "na", n |-> 0, s |-> ""]
Num(x) == [k |-> "num", n |-> x, s |-> ""]
Str(x) == [k |-> "str", n |-> 0, s |-> x]
\* a datetime.time, as seconds since midnight
TimeObj(h, m, sec) == [k |-> "time", n |-> h * 3600 + m * 60 + sec, s |-> ""]
\* a pandas Timestamp at midnight, as yyyymmdd
Ts(d) == [k |-> "ts", n |-> d, s |-> ""]

IsNA(c) == c.k = "na"

KeyColumn == "AcceptedTSN"
ForestSuffix == "_forest"
GrasslandSuffix == "_grassland"
Unknown == "Unknown"

(***************************************************************************)
(* strptime / str as pandas applies them in pd.to_datetime(format=...)     *)
(***************************************************************************)
\* strings that match '%Y-%m-%d' and name a real calendar day
DateLiterals == {"2021-06-01", "2021-07-01", "2021-12-15", "2022-03-09"}

StrpDate(s) ==
    CASE s = "2021-06-01" -> 20210601
      [] s = "2021-07-01" -> 20210701
      [] s = "2021-12-15" -> 20211215
      [] s = "2022-03-09" -> 20220309

\* strings that match '%H:%M:%S' with fields in range
TimeLiterals == {"08:30:00", "09:15:00", "06:00:00", "06:45:00", "17:05:09"}

StrpTime(s) ==
    CASE s = "08:30:00" -> 8 * 3600 + 30 * 60
      [] s = "09:15:00" -> 9 * 3600 + 15 * 60
      [] s = "06:00:00" -> 6 * 3600
      [] s = "06:45:00" -> 6 * 3600 + 45 * 60
      [] s = "17:05:09" -> 17 * 3600 + 5 * 60 + 9

Digit(d) ==
    CASE d = 0 -> "0" [] d = 1 -> "1" [] d = 2 -> "2" [] d = 3 -> "3"
      [] d = 4 -> "4" [] d = 5 -> "5" [] d = 6 -> "6" [] d = 7 -> "7"
      [] d = 8 -> "8" [] d = 9 -> "9"

TwoDigits(x) == Digit(x \div 10) \o Digit(x % 10)

\* TimeToStr dropping the seconds field
TimeToStr_short(t) == TwoDigits(t \div 3600) \o ":" \o TwoDigits((t % 3600) \div 60)

\* str(datetime.time) with no microseconds: zero-padded HH:MM:SS
TimeToStr(t) ==
    TwoDigits(t \div 3600) \o ":" \o TwoDigits((t % 3600) \div 60) \o ":"
        \o TwoDigits(t % 60)

\* ParseDate with errors='ignore': an unparsable cell is kept as it is
ParseDate_ignore(c) ==
    CASE c.k = "ts" -> c
      [] c.k = "str" -> IF c.s \in DateLiterals THEN Ts(StrpDate(c.s)) ELSE c
      [] OTHER -> c

\* one element of pd.to_datetime(col, format='%Y-%m-%d', errors='coerce')
ParseDate(c) ==
    CASE c.k = "ts" -> c
      [] c.k = "str" -> IF c.s \in DateLiterals THEN Ts(StrpDate(c.s)) ELSE NA
      [] OTHER -> NA

\* one element of pd.to_datetime(col, format='%H:%M:%S', errors='coerce').dt.time
ParseTime(c) ==
    LET text == CASE c.k = "str" -> c.s
                  [] c.k = "time" -> TimeToStr(c.n)
                  [] OTHER -> ""
    IN IF text \in TimeLiterals
          THEN [k |-> "time", n |-> StrpTime(text), s |-> ""]
          ELSE NA

(***************************************************************************)
(* DataFrames                                                              *)
(***************************************************************************)
NoneDF == [none |-> TRUE, cols |-> <<>>, dtypes |-> <<>>, rows |-> <<>>]

Range(f) == {f[i] : i \in DOMAIN f}

HasCol(df, name) == \E i \in 1..Len(df.cols) : df.cols[i] = name

ColIndex(df, name) == CHOOSE i \in 1..Len(df.cols) : df.cols[i] = name

Column(df, name) == [r \in 1..Len(df.rows) |-> df.rows[r][ColIndex(df, name)]]

\* the dtype pandas gives a column read from a sheet with these cells
InferDtype(cells) ==
    IF Len(cells) = 0 THEN "object"
    ELSE IF \A i \in DOMAIN cells : cells[i].k \in {"num", "na"} THEN "number"
    ELSE IF \A i \in DOMAIN cells : cells[i].k \in {"ts", "na"} THEN "datetime"
    ELSE IF \A i \in DOMAIN cells : cells[i].k = "bool" THEN "bool"
    ELSE "object"

MkFrame(cols, rows) ==
    [none |-> FALSE, cols |-> cols,
     dtypes |-> [i \in 1..Len(cols) |-> InferDtype([r \in 1..Len(rows) |-> rows[r][i]])],
     rows |-> rows]

(***************************************************************************)
(* pd.merge(df_forest, df_grassland, on='AcceptedTSN', how='outer',        *)
(*          suffixes=('_forest', '_grassland'))                            *)
(***************************************************************************)
\* SuffixedName suffixing every non-key column, colliding or not
SuffixedName_always(c, suffix, other) == IF c # KeyColumn THEN c \o suffix ELSE c

\* the name a column of `own` carries in the merged table
SuffixedName(c, suffix, other) ==
    IF c # KeyColumn /\ c \in Range(other.cols) THEN c \o suffix ELSE c

\* indices of the columns of df other than the join key, in order
NonKeyIdx(df) ==
    SelectSeq([j \in 1..Len(df.cols) |-> j], LAMBDA j : df.cols[j] # KeyColumn)

MergedCols(l, r) ==
    [i \in 1..Len(l.cols) |-> SuffixedName(l.cols[i], ForestSuffix, r)]
    \o [j \in 1..Len(NonKeyIdx(r)) |->
            SuffixedName(r.cols[NonKeyIdx(r)[j]], GrasslandSuffix, l)]

KeysOf(df) == {df.rows[i][ColIndex(df, KeyColumn)] : i \in 1..Len(df.rows)}

\* the order in which an outer join lists its keys: ascending, missing last
KeyBefore(a, b) == IF IsNA(a) THEN FALSE ELSE IF IsNA(b) THEN TRUE ELSE a.n < b.n

RECURSIVE SortKeys(_)
SortKeys(S) ==
    IF S = {} THEN <<>>
    ELSE LET m == CHOOSE a \in S : \A b \in S \ {a} : KeyBefore(a, b)
         IN <<m>> \o SortKeys(S \ {m})

RECURSIVE ConcatAll(_)
ConcatAll(ss) == IF ss = <<>> THEN <<>> ELSE Head(ss) \o ConcatAll(Tail(ss))

\* MergedRowsFor with how='inner': a key of one side only gives no row
MergedRowsFor_inner(l, r, k) ==
    LET lk == ColIndex(l, KeyColumn)
        rk == ColIndex(r, KeyColumn)
        L == SelectSeq(l.rows, LAMBDA row : row[lk] = k)
        R == SelectSeq(r.rows, LAMBDA row : row[rk] = k)
        ridx == NonKeyIdx(r)
        RightPart(row) == [j \in 1..Len(ridx) |-> row[ridx[j]]]
    IN IF L # <<>> /\ R # <<>>
          THEN [p \in 1..(Len(L) * Len(R)) |->
                    L[((p - 1) \div Len(R)) + 1] \o RightPart(R[((p - 1) % Len(R)) + 1])]
          ELSE <<>>

\* MergedRowsFor matching each left row with the first right row only
MergedRowsFor_first(l, r, k) ==
    LET lk == ColIndex(l, KeyColumn)
        rk == ColIndex(r, KeyColumn)
        L == SelectSeq(l.rows, LAMBDA row : row[lk] = k)
        R == SelectSeq(r.rows, LAMBDA row : row[rk] = k)
        ridx == NonKeyIdx(r)
        RightPart(row) == [j \in 1..Len(ridx) |-> row[ridx[j]]]
    IN IF L # <<>> /\ R # <<>>
          THEN [i \in 1..Len(L) |-> L[i] \o RightPart(R[1])]
       ELSE IF R = <<>>
          THEN [i \in 1..Len(L) |-> L[i] \o [j \in 1..Len(ridx) |-> NA]]
       ELSE [j \in 1..Len(R) |->
                [i \in 1..Len(l.cols) |-> IF i = lk THEN k ELSE NA] \o RightPart(R[j])]

\* the merged rows carrying key k; missing keys match each other like a value
MergedRowsFor(l, r, k) ==
    LET lk == ColIndex(l, KeyColumn)
        rk == ColIndex(r, KeyColumn)
        L == SelectSeq(l.rows, LAMBDA row : row[lk] = k)
        R == SelectSeq(r.rows, LAMBDA row : row[rk] = k)
        ridx == NonKeyIdx(r)
        RightPart(row) == [j \in 1..Len(ridx) |-> row[ridx[j]]]
    IN IF L # <<>> /\ R # <<>>
          THEN [p \in 1..(Len(L) * Len(R)) |->
                    L[((p - 1) \div Len(R)) + 1] \o RightPart(R[((p - 1) % Len(R)) + 1])]
       ELSE IF R = <<>>
          THEN [i \in 1..Len(L) |-> L[i] \o [j \in 1..Len(ridx) |-> NA]]
       ELSE [j \in 1..Len(R) |->
                [i \in 1..Len(l.cols) |-> IF i = lk THEN k ELSE NA] \o RightPart(R[j])]

MergedRows(l, r) ==
    LET keys == SortKeys(KeysOf(l) \cup KeysOf(r))
    IN ConcatAll([i \in 1..Len(keys) |-> MergedRowsFor(l, r, keys[i])])

\* a bool column that receives missing cells becomes an object column
MergedDtype(dt, padded) == IF dt = "bool" /\ padded THEN "object" ELSE dt

MergedDtypes(l, r) ==
    LET ridx == NonKeyIdx(r)
    IN [i \in 1..Len(l.cols) |->
            IF l.cols[i] = KeyColumn THEN l.dtypes[i]
            ELSE MergedDtype(l.dtypes[i], KeysOf(r) \ KeysOf(l) # {})]
       \o [j \in 1..Len(ridx) |->
            MergedDtype(r.dtypes[ridx[j]], KeysOf(l) \ KeysOf(r) # {})]

MergeRaises(l, r) == ~HasCol(l, KeyColumn) \/ ~HasCol(r, KeyColumn)

Merge(l, r) ==
    [none |-> FALSE, cols |-> MergedCols(l, r), dtypes |-> MergedDtypes(l, r),
     rows |-> MergedRows(l, r)]

(***************************************************************************)
(* The fill step: select_dtypes(...).columns and fillna                    *)
(***************************************************************************)
\* FillColumns assigning the value to every cell of the columns
FillColumns_assign(df, dtype, value) ==
    [df EXCEPT !.rows =
        [r \in 1..Len(df.rows) |->
            [i \in 1..Len(df.cols) |->
                IF df.dtypes[i] = dtype THEN value ELSE df.rows[r][i]]]]

FillColumns(df, dtype, value) ==
    [df EXCEPT !.rows =
        [r \in 1..Len(df.rows) |->
            [i \in 1..Len(df.cols) |->
                IF df.dtypes[i] = dtype /\ IsNA(df.rows[r][i]) THEN value
                ELSE df.rows[r][i]]]]

\* FillNumeric / FillObject leaving the table as it is
FillNumeric_skip(df) == df

FillObject_skip(df) == df

\* FillNumeric sparing the key column
FillNumeric_nokey(df) ==
    [df EXCEPT !.rows =
        [r \in 1..Len(df.rows) |->
            [i \in 1..Len(df.cols) |->
                IF df.cols[i] = KeyColumn THEN df.rows[r][i]
                ELSE FillColumns(df, "number", Num(0)).rows[r][i]]]]

FillNumeric(df) == FillColumns(df, "number", Num(0))

\* FillObject taking every column that is not numeric
FillObject_nonnumeric(df) ==
    [df EXCEPT !.rows =
        [r \in 1..Len(df.rows) |->
            [i \in 1..Len(df.cols) |->
                IF df.dtypes[i] # "number" /\ IsNA(df.rows[r][i]) THEN Str(Unknown)
                ELSE df.rows[r][i]]]]

FillObject(df) == FillColumns(df, "object", Str(Unknown))

Fill(df) == FillObject(FillNumeric(df))

(***************************************************************************)
(* The conversion step                                                     *)
(***************************************************************************)
DateColumns == {"Date_forest", "Date_grassland"}
TimeColumns == {"Start_Time_forest", "End_Time_forest",
                "Start_Time_grassland", "End_Time_grassland"}
DateTimeColumns == DateColumns \cup TimeColumns

\* ConvertRaises with errors='raise': an unparsable cell raises too
ConvertRaises_strict(df) ==
    \/ \E c \in DateTimeColumns : ~HasCol(df, c)
    \/ \E r \in 1..Len(df.rows), i \in 1..Len(df.cols) :
          \/ df.cols[i] \in DateColumns /\ IsNA(ParseDate(df.rows[r][i]))
          \/ df.cols[i] \in TimeColumns /\ IsNA(ParseTime(df.rows[r][i]))

ConvertRaises(df) == \E c \in DateTimeColumns : ~HasCol(df, c)

Convert(df) ==
    [df EXCEPT
        !.dtypes = [i \in 1..Len(df.cols) |->
                        IF df.cols[i] \in DateColumns THEN "datetime"
                        ELSE IF df.cols[i] \in TimeColumns THEN "object"
                        ELSE df.dtypes[i]],
        !.rows = [r \in 1..Len(df.rows) |->
                    [i \in 1..Len(df.cols) |->
                        IF df.cols[i] \in DateColumns THEN ParseDate(df.rows[r][i])
                        ELSE IF df.cols[i] \in TimeColumns THEN ParseTime(df.rows[r][i])
                        ELSE df.rows[r][i]]]]

(***************************************************************************)
(* preprocess_data, one action per stage                                   *)
(***************************************************************************)
\* lines 45-46: either argument None
PreCheck ==
    /\ pc = "pre_check"
    /\ IF forest_df.none \/ grassland_df.none
          THEN /\ processed_df' = NoneDF
               /\ pc' = "returned"
          ELSE /\ pc' = "merge"
               /\ UNCHANGED processed_df
    /\ UNCHANGED <<src_forest, src_grassland, forest_df, grassland_df, merged_df, filtered_df, exc, ui>>
    /\ UNCHANGED birds_vars

\* MergeStep going on with the forest table when the join raises
MergeStep_lenient ==
    /\ pc = "merge"
    /\ merged_df' = IF MergeRaises(forest_df, grassland_df) THEN forest_df
                    ELSE Merge(forest_df, grassland_df)
    /\ pc' = "fill"
    /\ UNCHANGED <<src_forest, src_grassland, forest_df, grassland_df, processed_df,
                   filtered_df, exc, ui>>
    /\ UNCHANGED birds_vars

\* lines 48-49
MergeStep ==
    /\ pc = "merge"
    /\ IF MergeRaises(forest_df, grassland_df)
          THEN /\ exc' = "KeyError"
               /\ pc' = "raised"
               /\ UNCHANGED merged_df
          ELSE /\ merged_df' = Merge(forest_df, grassland_df)
               /\ pc' = "fill"
               /\ UNCHANGED exc
    /\ UNCHANGED <<src_forest, src_grassland, forest_df, grassland_df, processed_df, filtered_df, ui>>
    /\ UNCHANGED birds_vars

\* lines 51-58
FillStep ==
    /\ pc = "fill"
    /\ merged_df' = Fill(merged_df)
    /\ pc' = "convert"
    /\ UNCHANGED <<src_forest, src_grassland, forest_df, grassland_df, processed_df, filtered_df, exc, ui>>
    /\ UNCHANGED birds_vars

\* lines 60-69
ConvertStep ==
    /\ pc = "convert"
    /\ IF ConvertRaises(merged_df)
          THEN /\ exc' = "KeyError"
               /\ pc' = "raised"
               /\ UNCHANGED <<merged_df, processed_df>>
          ELSE /\ merged_df' = Convert(merged_df)
               /\ processed_df' = Convert(merged_df)
               /\ pc' = "returned"
               /\ UNCHANGED exc
    /\ UNCHANGED <<src_forest, src_grassland, forest_df, grassland_df, filtered_df, ui>>
    /\ UNCHANGED birds_vars

(***************************************************************************)
(* load_data                                                               *)
(***************************************************************************)
\* pd.concat of the dtypes of one column over the sheets
ConcatDtype(ds) == IF \A i \in DOMAIN ds : ds[i] = ds[1] THEN ds[1] ELSE "object"

\* ReadWorkbook keeping the rows of the last sheet only
ReadWorkbook_last(src) ==
    [none |-> FALSE, cols |-> src.cols,
     dtypes |-> [c \in 1..Len(src.cols) |->
                    ConcatDtype([k \in 1..Len(src.sheets) |->
                        MkFrame(src.cols, src.sheets[k]).dtypes[c]])],
     rows |-> IF src.sheets = <<>> THEN <<>> ELSE src.sheets[Len(src.sheets)]]

\* lines 19-24 / 27-32: parse every sheet, concatenate in sheet order
ReadWorkbook(src) ==
    [none |-> FALSE, cols |-> src.cols,
     dtypes |-> [c \in 1..Len(src.cols) |->
                    ConcatDtype([k \in 1..Len(src.sheets) |->
                        MkFrame(src.cols, src.sheets[k]).dtypes[c]])],
     rows |-> ConcatAll(src.sheets)]

\* the value load_data returns first
combined_data_1(f, g) == IF f.status = "ok" THEN ReadWorkbook(f) ELSE NoneDF

\* the value load_data returns second: assigned only if both workbooks were read
combined_data_2(f, g) ==
    IF f.status = "ok" /\ g.status = "ok" THEN ReadWorkbook(g) ELSE NoneDF

\* lines 34-37: the message of the except clause that caught the failure
LoadMessage(status) ==
    IF status = "not_found" THEN "error: Error loading file"
    ELSE "error: An error occurred during data loading"

load_data_errors(f, g) ==
    IF f.status # "ok" THEN <<LoadMessage(f.status)>>
    ELSE IF g.status # "ok" THEN <<LoadMessage(g.status)>>
    ELSE <<>>

\* lines 78-79
LoadData ==
    /\ pc = "load"
    /\ forest_df' = combined_data_1(src_forest, src_grassland)
    /\ grassland_df' = combined_data_2(src_forest, src_grassland)
    /\ ui' = ui \o load_data_errors(src_forest, src_grassland)
    /\ pc' = "driver"
    /\ UNCHANGED <<src_forest, src_grassland, merged_df, processed_df, filtered_df, exc>>
    /\ UNCHANGED birds_vars

(***************************************************************************)
(* The module-level script                                                 *)
(***************************************************************************)
\* lines 82-83 and 88-90
Dispatch ==
    /\ pc = "driver"
    /\ IF ~forest_df.none /\ ~grassland_df.none
          THEN /\ pc' = "pre_check"
               /\ UNCHANGED <<processed_df, ui>>
          ELSE /\ processed_df' = NoneDF
               /\ ui' = Append(ui, "error: Data loading failed")
               /\ pc' = "temporal"
    /\ UNCHANGED <<src_forest, src_grassland, forest_df, grassland_df, merged_df,
                   filtered_df, exc>>
    /\ UNCHANGED birds_vars

\* lines 84-87
AfterPreprocess ==
    /\ pc = "returned"
    /\ ui' = IF processed_df.none THEN ui
             ELSE Append(ui, "success: Data loading and preprocessing complete!")
    /\ pc' = "temporal"
    /\ UNCHANGED <<src_forest, src_grassland, forest_df, grassland_df, merged_df,
                   processed_df, filtered_df, exc>>
    /\ UNCHANGED birds_vars

\* df[name] = cells for a name that is not yet a column
AddColumn(df, name, cells) ==
    [df EXCEPT !.cols = Append(df.cols, name),
               !.dtypes = Append(df.dtypes, InferDtype(cells)),
               !.rows = [r \in 1..Len(df.rows) |-> Append(df.rows[r], cells[r])]]

YearOf(c) == IF c.k = "ts" THEN Num(c.n \div 10000) ELSE NA

MonthOf(c) == IF c.k = "ts" THEN Num((c.n \div 100) % 100) ELSE NA

\* lines 97-101
SeasonOf(c) ==
    IF c.k # "num" THEN NA
    ELSE IF c.n \in {12, 1, 2} THEN Str("Winter")
    ELSE IF c.n \in {3, 4, 5} THEN Str("Spring")
    ELSE IF c.n \in {6, 7, 8} THEN Str("Summer")
    ELSE IF c.n \in {9, 10, 11} THEN Str("Autumn")
    ELSE NA

\* WithTemporalFeatures keeping only the rows that have a forest date
WithTemporalFeatures_dropna(df) ==
    LET di == ColIndex(df, "Date_forest")
        d == [df EXCEPT !.rows = SelectSeq(df.rows, LAMBDA row : ~IsNA(row[di]))]
        n == Len(d.rows)
        y == AddColumn(d, "Year", [r \in 1..n |-> YearOf(d.rows[r][di])])
        m == AddColumn(y, "Month", [r \in 1..n |-> MonthOf(d.rows[r][di])])
    IN AddColumn(m, "Season", [r \in 1..n |-> SeasonOf(Column(m, "Month")[r])])

\* lines 95-101
WithTemporalFeatures(df) ==
    LET n == Len(df.rows)
        y == AddColumn(df, "Year", [r \in 1..n |-> YearOf(Column(df, "Date_forest")[r])])
        m == AddColumn(y, "Month", [r \in 1..n |-> MonthOf(Column(y, "Date_forest")[r])])
    IN AddColumn(m, "Season", [r \in 1..n |-> SeasonOf(Column(m, "Month")[r])])

\* KeepsStartTime with dropna(how='any'): a start time in both habitats
KeepsStartTime_any(df, row) ==
    LET f == row[ColIndex(df, "Start_Time_forest")]
        g == row[ColIndex(df, "Start_Time_grassland")]
    IN /\ ~IsNA(f) /\ ~IsNA(g)
       /\ (f # Str(Unknown) \/ g # Str(Unknown))

\* lines 105-109: dropna(how='all') on the two start times, then the comparison
\* of both with 'Unknown'
KeepsStartTime(df, row) ==
    LET f == row[ColIndex(df, "Start_Time_forest")]
        g == row[ColIndex(df, "Start_Time_grassland")]
    IN /\ ~(IsNA(f) /\ IsNA(g))
       /\ (f # Str(Unknown) \/ g # Str(Unknown))

\* lines 112-113: the hour of str(cell) parsed with '%H:%M:%S'
StartHour(c) ==
    LET t == ParseTime(IF c.k = "time" THEN Str(TimeToStr(c.n)) ELSE NA)
    IN IF IsNA(t) THEN NA ELSE Num(t.n \div 3600)

FilteredFrame(df) ==
    LET kept == [df EXCEPT !.rows = SelectSeq(df.rows, LAMBDA row : KeepsStartTime(df, row))]
        n == Len(kept.rows)
        f == AddColumn(kept, "Start_Hour_forest",
                       [r \in 1..n |-> StartHour(Column(kept, "Start_Time_forest")[r])])
    IN AddColumn(f, "Start_Hour_grassland",
                 [r \in 1..n |-> StartHour(Column(f, "Start_Time_grassland")[r])])

\* line 127: the rows kept by processed_df['Season'] != 'Unknown'
SeasonRows(df) ==
    LET si == ColIndex(df, "Season")
    IN {r \in 1..Len(df.rows) : df.rows[r][si] # Str(Unknown)}

\* SeasonGroups with groupby(dropna=False): the missing season is a group
SeasonGroups_keepna(df) ==
    LET si == ColIndex(df, "Season")
    IN {df.rows[r][si] : r \in SeasonRows(df)}

\* line 127: the groups of groupby('Season'), which leaves out a missing season
SeasonGroups(df) ==
    LET si == ColIndex(df, "Season")
    IN {df.rows[r][si] : r \in SeasonRows(df)} \ {NA}

\* line 127: the AcceptedTSN values nunique() counts in group g
SeasonSpecies(df, g) ==
    LET si == ColIndex(df, "Season")
        ki == ColIndex(df, KeyColumn)
    IN {df.rows[r][ki] : r \in {q \in SeasonRows(df) : df.rows[q][si] = g}} \ {NA}

\* line 127
seasonal_species_count(df) ==
    [g \in SeasonGroups(df) |-> Cardinality(SeasonSpecies(df, g))]

\* ReportRows without the comparison: every row is kept
ReportRows_all(df, col, sentinel) == 1..Len(df.rows)

\* lines 141, 179, 214: the rows kept by processed_df[col] != sentinel
ReportRows(df, col, sentinel) ==
    LET ci == ColIndex(df, col)
    IN {r \in 1..Len(df.rows) : df.rows[r][ci] # sentinel}

\* the groups of groupby(col) on the kept rows
ReportGroups(df, col, sentinel) ==
    LET ci == ColIndex(df, col)
    IN {df.rows[r][ci] : r \in ReportRows(df, col, sentinel)} \ {NA}

\* ...groupby(col)['AcceptedTSN'].nunique()
unique_species(df, col, sentinel) ==
    LET ci == ColIndex(df, col)
        ki == ColIndex(df, KeyColumn)
        kept == ReportRows(df, col, sentinel)
    IN [g \in ReportGroups(df, col, sentinel) |->
           Cardinality({df.rows[r][ki] : r \in {q \in kept : df.rows[q][ci] = g}} \ {NA})]

\* lines 179, 184
observer_species_count_forest(df) == unique_species(df, "Observer_forest", Str(Unknown))

observer_species_count_grassland(df) == unique_species(df, "Observer_grassland", Str(Unknown))

\* lines 214, 252
avg_species_temp_forest(df) == unique_species(df, "Temperature_forest", Num(0))

avg_species_temp_grassland(df) == unique_species(df, "Temperature_grassland", Num(0))

\* a section `if processed_df is not None:` that reads the columns in needs
Section(here, next, header, needs) ==
    /\ pc = here
    /\ IF processed_df.none
          THEN /\ pc' = next
               /\ UNCHANGED <<exc, ui>>
          ELSE IF \E c \in needs : ~HasCol(processed_df, c)
          THEN /\ exc' = "KeyError"
               /\ pc' = "raised"
               /\ ui' = Append(ui, header)
          ELSE /\ pc' = next
               /\ ui' = Append(ui, header)
               /\ UNCHANGED exc

\* lines 91-135
TemporalAnalysis ==
    /\ Section("temporal", "spatial", "header: Temporal Analysis", {})
    /\ IF processed_df.none
          THEN UNCHANGED <<processed_df, filtered_df>>
          ELSE /\ processed_df' = WithTemporalFeatures(processed_df)
               /\ filtered_df' = FilteredFrame(WithTemporalFeatures(processed_df))
    /\ UNCHANGED <<src_forest, src_grassland, forest_df, grassland_df, merged_df>>
    /\ UNCHANGED birds_vars

\* lines 136-173
SpatialAnalysis ==
    /\ Section("spatial", "observer", "header: Spatial Analysis", {})
    /\ UNCHANGED <<src_forest, src_grassland, forest_df, grassland_df, merged_df,
                   processed_df, filtered_df>>
    /\ UNCHANGED birds_vars

\* lines 174-208
ObserverTrends ==
    /\ Section("observer", "environment", "header: Observer Trends",
               {"Observer_forest", "Observer_grassland"})
    /\ UNCHANGED <<src_forest, src_grassland, forest_df, grassland_df, merged_df,
                   processed_df, filtered_df>>
    /\ UNCHANGED birds_vars

\* lines 209-299
EnvironmentalAnalysis ==
    /\ Section("environment", "conservation", "header: Environmental Analysis",
               {"Temperature_forest", "Temperature_grassland"})
    /\ UNCHANGED <<src_forest, src_grassland, forest_df, grassland_df, merged_df,
                   processed_df, filtered_df>>
    /\ UNCHANGED birds_vars

\* lines 300-384
ConservationInsights ==
    /\ Section("conservation", "distance", "header: Conservation Insights", {})
    /\ UNCHANGED <<src_forest, src_grassland, forest_df, grassland_df, merged_df,
                   processed_df, filtered_df>>
    /\ UNCHANGED birds_vars

\* lines 385-387
DistanceHeader ==
    /\ Section("distance", "flyover", "header: Distance and Behaviour", {})
    /\ UNCHANGED <<src_forest, src_grassland, forest_df, grassland_df, merged_df,
                   processed_df, filtered_df>>
    /\ UNCHANGED birds_vars

\* lines 389-436, at module level outside the guard of line 385:
\* processed_df[...] on None raises TypeError
FlyoverFrequency ==
    /\ pc = "flyover"
    /\ IF processed_df.none
          THEN /\ exc' = "TypeError"
               /\ pc' = "raised"
               /\ UNCHANGED ui
          ELSE /\ pc' = "id_method"
               /\ ui' = Append(ui, "chart: Flyover Observation Counts")
               /\ UNCHANGED exc
    /\ UNCHANGED <<src_forest, src_grassland, forest_df, grassland_df, merged_df,
                   processed_df, filtered_df>>
    /\ UNCHANGED birds_vars

\* lines 438-472
IDMethod ==
    /\ Section("id_method", "done", "header: ID Method", {})
    /\ UNCHANGED <<src_forest, src_grassland, forest_df, grassland_df, merged_df,
                   processed_df, filtered_df>>
    /\ UNCHANGED birds_vars

(***************************************************************************)
(* birds.py: load_and_preprocess_data and the module-level script          *)
(***************************************************************************)
\* pd.DataFrame()
EmptyDF == [none |-> FALSE, cols |-> <<>>, dtypes |-> <<>>, rows |-> <<>>]

\* DataFrame.empty: some axis has length 0
IsEmpty(df) == Len(df.cols) = 0 \/ Len(df.rows) = 0

\* lines 31-32: [col + suffix for col in df.columns]
Suffixed(cols, suffix) == [i \in 1..Len(cols) |-> cols[i] \o suffix]

\* one element of pd.to_datetime(col, errors='coerce'): a number is taken as
\* nanoseconds after 1970-01-01
to_datetime(c) == IF c.k = "num" THEN Ts(19700101) ELSE ParseDate(c)

\* lines 26-41 for one file: read_csv, the suffixed names, the date columns
ReadCsv(file, suffix) ==
    LET cols == Suffixed(file.cols, suffix)
        raw == MkFrame(cols, file.rows)
    IN [none |-> FALSE, cols |-> cols,
        dtypes |-> [i \in 1..Len(cols) |->
                       IF cols[i] \in DateColumns THEN "datetime" ELSE raw.dtypes[i]],
        rows |-> [r \in 1..Len(file.rows) |->
                     [i \in 1..Len(cols) |->
                         IF cols[i] \in DateColumns THEN to_datetime(file.rows[r][i])
                         ELSE file.rows[r][i]]]]

Min(a, b) == IF a <= b THEN a ELSE b

Max(a, b) == IF a >= b THEN a ELSE b

\* head keeping every row
head_all(df, n) == df

\* df.head(n)
head(df, n) == [df EXCEPT !.rows = SubSeq(df.rows, 1, Min(n, Len(df.rows)))]

\* pd.concat([l, r], axis=1): rows are matched by position, the shorter table
\* is padded with missing cells
concat_columns(l, r) ==
    LET n == Max(Len(l.rows), Len(r.rows))
        Cells(df, i) == IF i <= Len(df.rows) THEN df.rows[i]
                        ELSE [c \in 1..Len(df.cols) |-> NA]
    IN [none |-> FALSE, cols |-> l.cols \o r.cols, dtypes |-> l.dtypes \o r.dtypes,
        rows |-> [i \in 1..n |-> Cells(l, i) \o Cells(r, i)]]

\* lines 45-46
MergedOf(f, g) ==
    LET max_rows == Min(Len(f.rows), Len(g.rows))
    IN concat_columns(head(f, max_rows), head(g, max_rows))

\* lines 50-55: the message of the except clause that caught the failure
BirdsLoadMessage(status) ==
    IF status = "not_found" THEN "error: Data files not found"
    ELSE "error: An error occurred during data loading or preprocessing"

\* lines 21-55 and 57
load_and_preprocess_data ==
    /\ pc = "birds_load"
    /\ IF FOREST_FILE.status = "ok" /\ GRASSLAND_FILE.status = "ok"
          THEN /\ FOREST_DF' = ReadCsv(FOREST_FILE, ForestSuffix)
               /\ GRASSLAND_DF' = ReadCsv(GRASSLAND_FILE, GrasslandSuffix)
               /\ MERGED_DF' = MergedOf(ReadCsv(FOREST_FILE, ForestSuffix),
                                        ReadCsv(GRASSLAND_FILE, GrasslandSuffix))
               /\ UNCHANGED ui
          ELSE /\ FOREST_DF' = EmptyDF
               /\ GRASSLAND_DF' = EmptyDF
               /\ MERGED_DF' = EmptyDF
               /\ ui' = Append(ui, BirdsLoadMessage(
                                      IF FOREST_FILE.status # "ok" THEN FOREST_FILE.status
                                      ELSE GRASSLAND_FILE.status))
    /\ pc' = "birds_guard"
    /\ UNCHANGED <<FOREST_FILE, GRASSLAND_FILE, charts>>
    /\ UNCHANGED app_vars

\* lines 59-60: if MERGED_DF.empty: st.stop()
StopGuard ==
    /\ pc = "birds_guard"
    /\ pc' = IF IsEmpty(MERGED_DF) THEN "stopped" ELSE "metrics"
    /\ UNCHANGED <<ui, birds_vars, app_vars>>

\* lines 157-167
SummaryMetricsOutput ==
    IF /\ HasCol(FOREST_DF, "Common_Name_forest")
       /\ HasCol(GRASSLAND_DF, "Common_Name_grassland")
    THEN "metric: Unique Species"
    ELSE "info: Cannot calculate summary metrics"

\* lines 145-167
SummaryMetrics ==
    /\ pc = "metrics"
    /\ ui' = ui \o <<"title: Birds Observation Habitat Comparison", SummaryMetricsOutput>>
    /\ pc' = "tab_forest"
    /\ UNCHANGED <<birds_vars, app_vars>>

\* lines 64-142: what render_habitat_analysis puts on the page
render_habitat_analysis(df, habitat_name, suffix) ==
    IF \E c \in {"Common_Name", "ID_Method", "Flyover_Observed", "Plot_Name"} :
          ~HasCol(df, c \o suffix)
    THEN <<"warning: Required columns not found in " \o habitat_name>>
    ELSE <<"chart: Top 10 Species in " \o habitat_name,
           "chart: Unique Species by ID Method " \o habitat_name,
           "chart: Flyover Observation Counts " \o habitat_name,
           "chart: Top 10 Plots " \o habitat_name>>

\* the columns render_habitat_analysis requires, before the suffix
RequiredColumns == {"Common_Name", "ID_Method", "Flyover_Observed", "Plot_Name"}

\* the strings of the grouping columns in the order groupby sorts them
Lexicon ==
    <<"Calling", "Plot-01", "Plot-02", "Plot-03", "Plot-04", "Plot-05", "Plot-06",
      "Plot-07", "Plot-08", "Plot-09", "Plot-10", "Plot-11", "Plot-12",
      "Plot-A", "Plot-B", "Plot-C", "Singing", "Visualization">>

\* str.lower() on the strings of the flyover column
Lower(s) ==
    CASE s = "Unknown" -> "unknown"
      [] s = "UNKNOWN" -> "unknown"
      [] s = "Yes" -> "yes"
      [] s = "No" -> "no"
      [] OTHER -> s

\* astype(str) on a cell that is a string or missing
astype_str(c) == IF c.k = "str" THEN c.s ELSE "nan"

\* the values of cells in order of first appearance, missing cells left out
RECURSIVE Distinct(_)
Distinct(cells) ==
    IF cells = <<>> THEN <<>>
    ELSE LET rest == Distinct(SubSeq(cells, 1, Len(cells) - 1))
             last == cells[Len(cells)]
         IN IF IsNA(last) \/ last \in Range(rest) THEN rest ELSE Append(rest, last)

\* entry e put after the entries of the non-increasing sequence that count
\* at least as much
InsertDesc(sorted, e) ==
    LET k == Cardinality({i \in 1..Len(sorted) : sorted[i][2] >= e[2]})
    IN SubSeq(sorted, 1, k) \o <<e>> \o SubSeq(sorted, k + 1, Len(sorted))

\* sort_values(ascending=False) on <<value, count>> entries; equal counts keep
\* their order
RECURSIVE sort_values(_)
sort_values(entries) ==
    IF entries = <<>> THEN <<>>
    ELSE InsertDesc(sort_values(SubSeq(entries, 1, Len(entries) - 1)),
                    entries[Len(entries)])

\* Series.value_counts(): <<value, count>>, largest count first
value_counts(cells) ==
    LET d == Distinct(cells)
    IN sort_values([i \in 1..Len(d) |->
                       <<d[i], Cardinality({r \in 1..Len(cells) : cells[r] = d[i]})>>])

\* nlargest keeping every entry
nlargest_all(entries, n) == entries

\* nlargest(n) / head(n) of entries that are sorted largest first
nlargest(entries, n) == SubSeq(entries, 1, Min(n, Len(entries)))

\* df.groupby(by)[of].nunique(): <<group, distinct values>> in group order,
\* missing groups and missing values left out
groupby_nunique(df, by, of) ==
    LET bi == ColIndex(df, by)
        oi == ColIndex(df, of)
        groups == SelectSeq(Lexicon, LAMBDA g :
                      \E r \in 1..Len(df.rows) : df.rows[r][bi] = Str(g))
    IN [i \in 1..Len(groups) |->
           <<Str(groups[i]),
             Cardinality({df.rows[r][oi] :
                            r \in {q \in 1..Len(df.rows) : df.rows[q][bi] = Str(groups[i])}}
                         \ {NA})>>]

\* line 80
top_species(df, suffix) ==
    nlargest(value_counts(Column(df, "Common_Name" \o suffix)), TopN)

\* line 97
id_method_species(df, suffix) ==
    groupby_nunique(df, "ID_Method" \o suffix, "Common_Name" \o suffix)

\* line 112
flyover_counts(df, suffix) ==
    LET col == Column(df, "Flyover_Observed" \o suffix)
    IN value_counts(SelectSeq(col, LAMBDA c : Lower(astype_str(c)) # "unknown"))

\* lines 129-135
plot_species_count_sorted(df, suffix) ==
    nlargest(sort_values(groupby_nunique(df, "Plot_Name" \o suffix,
                                         "Common_Name" \o suffix)), TopN)

\* lines 64-142: the charts render_habitat_analysis draws
habitat_charts(df, habitat_name, suffix) ==
    IF \E c \in RequiredColumns : ~HasCol(df, c \o suffix)
    THEN <<>>
    ELSE <<[title |-> "Top 10 Species in " \o habitat_name,
            data |-> top_species(df, suffix)],
           [title |-> "Unique Species by ID Method " \o habitat_name,
            data |-> id_method_species(df, suffix)],
           [title |-> "Flyover Observation Counts " \o habitat_name,
            data |-> flyover_counts(df, suffix)],
           [title |-> "Top 10 Plots " \o habitat_name,
            data |-> plot_species_count_sorted(df, suffix)]>>

\* lines 173-174
TabForest ==
    /\ pc = "tab_forest"
    /\ ui' = ui \o render_habitat_analysis(FOREST_DF, "Forest", ForestSuffix)
    /\ charts' = charts \o habitat_charts(FOREST_DF, "Forest", ForestSuffix)
    /\ pc' = "tab_grassland"
    /\ UNCHANGED <<FOREST_FILE, GRASSLAND_FILE, MERGED_DF, FOREST_DF, GRASSLAND_DF>>
    /\ UNCHANGED app_vars

\* lines 176-177
TabGrassland ==
    /\ pc = "tab_grassland"
    /\ ui' = ui \o render_habitat_analysis(GRASSLAND_DF, "Grassland", GrasslandSuffix)
    /\ charts' = charts \o habitat_charts(GRASSLAND_DF, "Grassland", GrasslandSuffix)
    /\ pc' = "birds_done"
    /\ UNCHANGED <<FOREST_FILE, GRASSLAND_FILE, MERGED_DF, FOREST_DF, GRASSLAND_DF>>
    /\ UNCHANGED app_vars

(***************************************************************************)
(* Input tables                                                            *)
(***************************************************************************)
AllCols == <<"AcceptedTSN", "Date", "Start_Time", "End_Time", "Observer", "Temperature">>

Without(cols, name) == SelectSeq(cols, LAMBDA c : c # name)

\* the column sets of the two workbooks: <<forest columns, grassland columns>>
Schemas ==
    { <<AllCols, AllCols>>,
      <<Without(AllCols, "Date"), AllCols>>,
      <<AllCols, Without(AllCols, "End_Time")>>,
      <<Without(AllCols, "AcceptedTSN"), AllCols>>,
      <<AllCols, Without(AllCols, "AcceptedTSN")>>,
      <<Without(AllCols, "Observer"), Without(AllCols, "Temperature")>> }

\* sample observation rows, cells in the order of AllCols
F1 == <<Num(1), Str("2021-06-01"), Str("08:30:00"), Str("09:15:00"), Str("Alice"), Num(5)>>
F2 == <<Num(1), Str("not-a-date"), NA, Str("late"), NA, NA>>
F3 == <<Num(0), NA, TimeObj(17, 5, 9), Str("25:00:00"), Str("Bob"), Num(0)>>
F4 == <<NA, Ts(20211215), Str("Unknown"), NA, Str("Unknown"), Num(3)>>

G1 == <<Num(1), Str("2021-07-01"), Str("06:00:00"), Str("06:45:00"), Str("Carol"), Num(7)>>
G2 == <<Num(2), Str("2021-13-01"), Str("late"), NA, NA, NA>>
G3 == <<NA, NA, NA, TimeObj(6, 45, 0), Str("Alice"), NA>>
G4 == <<Num(0), Ts(20220309), Str("06:00:00"), Str("0"), NA, Num(0)>>

ForestPool == {F1, F2, F3, F4}

GrasslandPool == {G1, G2, G3, G4}

\* sample sheets of the two workbooks
ForestSheets == {<<F1>>, <<F2, F3>>, <<F4>>}

GrasslandSheets == {<<G1, G2>>, <<G3>>, <<G4>>}

AllColIndex(name) == CHOOSE i \in 1..Len(AllCols) : AllCols[i] = name

Project(row, cols) == [i \in 1..Len(cols) |-> row[AllColIndex(cols[i])]]

SeqsUpTo(S, n) == UNION {[1..m -> S] : m \in 1..n}

Tables(pool, cols) ==
    { MkFrame(cols, [i \in 1..Len(rs) |-> Project(rs[i], cols)]) : rs \in SeqsUpTo(pool, MaxRows) }

\* birds.py has not been started
NoFile == [status |-> "unused", cols |-> <<>>, rows |-> <<>>]

NoBirds ==
    /\ FOREST_FILE = NoFile
    /\ GRASSLAND_FILE = NoFile
    /\ MERGED_DF = EmptyDF
    /\ FOREST_DF = EmptyDF
    /\ GRASSLAND_DF = EmptyDF
    /\ charts = <<>>

NoSource == [status |-> "none", cols |-> <<>>, sheets |-> <<>>]

\* preprocess_data called on two tables (or None)
InitPre ==
    /\ src_forest = NoSource
    /\ src_grassland = NoSource
    /\ \E sch \in Schemas :
          /\ forest_df \in Tables(ForestPool, sch[1]) \cup {NoneDF}
          /\ grassland_df \in Tables(GrasslandPool, sch[2]) \cup {NoneDF}
    /\ merged_df = NoneDF
    /\ processed_df = NoneDF
    /\ filtered_df = NoneDF
    /\ pc = "pre_check"
    /\ exc = "none"
    /\ ui = <<>>
    /\ NoBirds

NextPre == PreCheck \/ MergeStep \/ FillStep \/ ConvertStep

SpecPre == InitPre /\ [][NextPre]_vars

Workbooks(sheetPool, cols) ==
    { [status |-> "ok", cols |-> cols,
       sheets |-> [k \in 1..Len(ss) |->
                      [i \in 1..Len(ss[k]) |-> Project(ss[k][i], cols)]]]
        : ss \in SeqsUpTo(sheetPool, MaxSheets) }
    \cup { [status |-> st, cols |-> cols, sheets |-> <<>>] : st \in {"not_found", "unreadable"} }

\* the script started on two workbooks
Init ==
    /\ \E sch \in Schemas :
          /\ src_forest \in Workbooks(ForestSheets, sch[1])
          /\ src_grassland \in Workbooks(GrasslandSheets, sch[2])
    /\ forest_df = NoneDF
    /\ grassland_df = NoneDF
    /\ merged_df = NoneDF
    /\ processed_df = NoneDF
    /\ filtered_df = NoneDF
    /\ pc = "load"
    /\ exc = "none"
    /\ ui = <<>>
    /\ NoBirds

Next ==
    \/ LoadData
    \/ Dispatch
    \/ PreCheck
    \/ MergeStep
    \/ FillStep
    \/ ConvertStep
    \/ AfterPreprocess
    \/ TemporalAnalysis
    \/ SpatialAnalysis
    \/ ObserverTrends
    \/ EnvironmentalAnalysis
    \/ ConservationInsights
    \/ DistanceHeader
    \/ FlyoverFrequency
    \/ IDMethod

Spec == Init /\ [][Next]_vars

(***************************************************************************)
(* birds.py: input files and specification                                 *)
(***************************************************************************)
BirdCols == <<"Common_Name", "ID_Method", "Flyover_Observed", "Plot_Name", "Date">>

\* the column sets of the two CSV files: <<forest columns, grassland columns>>
BirdSchemas ==
    { <<BirdCols, BirdCols>>,
      <<Without(BirdCols, "Plot_Name"), BirdCols>>,
      <<BirdCols, Without(BirdCols, "Common_Name")>> }

BF1 == <<Str("Robin"), Str("Singing"), Str("Yes"), Str("Plot-A"), Str("2021-06-01")>>
BF2 == <<Str("Wren"), Str("Visualization"), Str("Unknown"), Str("Plot-A"), Str("not-a-date")>>
BF3 == <<Str("Robin"), NA, Str("unknown"), Str("Plot-B"), NA>>

BG1 == <<Str("Lark"), Str("Singing"), Str("No"), Str("Plot-C"), Str("2021-07-01")>>
BG2 == <<NA, Str("Calling"), NA, Str("Plot-C"), NA>>
BG3 == <<Str("Lark"), Str("Calling"), Str("Yes"), NA, Str("not-a-date")>>

BirdForestPool == {BF1, BF2, BF3}
BirdGrasslandPool == {BG1, BG2, BG3}

BirdColIndex(name) == CHOOSE i \in 1..Len(BirdCols) : BirdCols[i] = name

Species ==
    <<"Sp01", "Sp02", "Sp03", "Sp04", "Sp05", "Sp06", "Sp07", "Sp08", "Sp09",
      "Sp10", "Sp11", "Sp12">>

FlyoverValues == <<"Yes", "UNKNOWN", "No", "unknown">>

\* species k seen at plot p
SurveyRow(k, p) ==
    <<Str(Species[k]), Str(IF k % 2 = 0 THEN "Singing" ELSE "Calling"),
      Str(FlyoverValues[(k % 4) + 1]), Str(Lexicon[p + 1]), NA>>

\* later sightings <<species, plot>> of a survey of n species
Revisits(n) ==
    { <<>>,
      << <<n, 1>>, <<n, 2>> >>,
      << <<n, 1>>, <<n - 1, 1>>, <<2, 1>> >>,
      << <<1, n>>, <<2, n>> >> }

\* surveys around the length of the top lists: n species, each first seen at
\* its own plot, then the later sightings
LongSurveys ==
    { [k \in 1..n |-> SurveyRow(k, k)] \o [i \in 1..Len(v) |-> SurveyRow(v[i][1], v[i][2])]
        : <<n, v>> \in UNION {{<<m, w>> : w \in Revisits(m)} : m \in (TopN - 1)..(TopN + 2)} }

\* the CSV files: readable with up to MaxRows rows (a header alone included)
\* or with a long survey, missing, or unreadable
CsvFiles(pool, cols) ==
    { [status |-> "ok", cols |-> cols,
       rows |-> [i \in 1..Len(rs) |->
                    [c \in 1..Len(cols) |-> rs[i][BirdColIndex(cols[c])]]]]
        : rs \in {<<>>} \cup SeqsUpTo(pool, MaxRows) \cup LongSurveys }
    \cup { [status |-> st, cols |-> cols, rows |-> <<>>] : st \in {"not_found", "unreadable"} }

\* birds.py started on two CSV files
InitBirds ==
    /\ \E sch \in BirdSchemas :
          /\ FOREST_FILE \in CsvFiles(BirdForestPool, sch[1])
          /\ GRASSLAND_FILE \in CsvFiles(BirdGrasslandPool, sch[2])
    /\ MERGED_DF = EmptyDF
    /\ FOREST_DF = EmptyDF
    /\ GRASSLAND_DF = EmptyDF
    /\ charts = <<>>
    /\ src_forest = NoSource
    /\ src_grassland = NoSource
    /\ forest_df = NoneDF
    /\ grassland_df = NoneDF
    /\ merged_df = NoneDF
    /\ processed_df = NoneDF
    /\ filtered_df = NoneDF
    /\ pc = "birds_load"
    /\ exc = "none"
    /\ ui = <<>>

NextBirds ==
    \/ load_and_preprocess_data
    \/ StopGuard
    \/ SummaryMetrics
    \/ TabForest
    \/ TabGrassland

SpecBirds == InitBirds /\ [][NextBirds]_vars

(***************************************************************************)
(* Properties of preprocess_data (checked under SpecPre)                   *)
(***************************************************************************)
\* preprocess_data returned a table
Returned == pc = "returned" /\ ~processed_df.none

\* the table as joined, before the fill
Joined == Merge(forest_df, grassland_df)

\* number of rows of df whose key cell is k
Occ(df, k) ==
    LET ki == ColIndex(df, KeyColumn)
    IN Cardinality({i \in 1..Len(df.rows) : df.rows[i][ki] = k})

InputKeys == KeysOf(forest_df) \cup KeysOf(grassland_df)

\* C1: every non-missing key value of either input table occurs in at least
\* one row of the returned table.
C1_JoinCompleteness ==
    Returned => \A k \in InputKeys : ~IsNA(k) => Occ(processed_df, k) >= 1

C1_Witness ==
    /\ Returned
    /\ \E k \in KeysOf(forest_df) \ KeysOf(grassland_df) : ~IsNA(k)
    /\ \E k \in KeysOf(grassland_df) \ KeysOf(forest_df) : ~IsNA(k)
    /\ \E k \in KeysOf(grassland_df) \cap KeysOf(forest_df) : ~IsNA(k)

\* rows an outer join gives a key occurring n times on one side, m on the other
JoinCount(n, m) == IF n >= 1 /\ m >= 1 THEN n * m ELSE n + m

\* C2 as stated: in the returned table every key value k has N*M rows (N+M if
\* one side lacks it), and inputs sharing no key value give the sum of the
\* row counts.
C2_AsStated ==
    Returned =>
        /\ \A k \in InputKeys : ~IsNA(k) =>
              Occ(processed_df, k) = JoinCount(Occ(forest_df, k), Occ(grassland_df, k))
        /\ ({k \in KeysOf(forest_df) \cap KeysOf(grassland_df) : ~IsNA(k)} = {}
              => Len(processed_df.rows) = Len(forest_df.rows) + Len(grassland_df.rows))

\* C2 amended: the count N*M / N+M holds per key in the table as joined, with
\* the rows of a missing key joined to each other like a key value; in the
\* returned table it holds for every key value other than 0, and the rows
\* with key 0 are those of key 0 together with those of the missing key,
\* which the fill sets to 0.  Inputs sharing no key value and not both
\* holding a missing key give the sum of the row counts.
C2_JoinCardinality ==
    /\ pc = "fill" =>
          \A k \in InputKeys :
              Occ(merged_df, k) = JoinCount(Occ(forest_df, k), Occ(grassland_df, k))
    /\ Returned =>
          /\ \A k \in InputKeys \ {NA, Num(0)} :
                Occ(processed_df, k) = JoinCount(Occ(forest_df, k), Occ(grassland_df, k))
          /\ Occ(processed_df, Num(0)) =
                JoinCount(Occ(forest_df, Num(0)), Occ(grassland_df, Num(0)))
                + JoinCount(Occ(forest_df, NA), Occ(grassland_df, NA))
          /\ Occ(processed_df, NA) = 0
          /\ (KeysOf(forest_df) \cap KeysOf(grassland_df) = {}
                => Len(processed_df.rows) = Len(forest_df.rows) + Len(grassland_df.rows))

C2_Witness ==
    /\ Returned
    /\ \E k \in InputKeys : Occ(forest_df, k) = 2 /\ Occ(grassland_df, k) = 1
                            /\ Occ(processed_df, k) = 2
    /\ \E k \in InputKeys : Occ(forest_df, k) = 0 /\ Occ(grassland_df, k) = 1

\* the role the fill step gives a column that has dtype dt in the joined table
NumericRole(dt) == dt = "number"
TextualRole(dt) == dt = "object"

\* C3 as stated: the returned table has no missing cell in any numeric-role
\* or textual-role column.
C3_AsStated ==
    Returned =>
        LET j == Joined
        IN \A i \in 1..Len(processed_df.cols) :
              (NumericRole(j.dtypes[i]) \/ TextualRole(j.dtypes[i])) =>
                  \A r \in 1..Len(processed_df.rows) : ~IsNA(processed_df.rows[r][i])

\* C3 amended: in the returned table no cell of a numeric-role or textual-role
\* column other than the six date/time columns is missing; a cell that was
\* missing in the join holds 0 in a numeric-role column and "Unknown" in a
\* textual-role column, and numeric-role columns hold numbers only.
C3_ImputationTotality ==
    Returned =>
        LET j == Joined
        IN \A i \in 1..Len(processed_df.cols) :
              processed_df.cols[i] \notin DateTimeColumns =>
                  \A r \in 1..Len(processed_df.rows) :
                      /\ NumericRole(j.dtypes[i]) =>
                            /\ processed_df.rows[r][i].k = "num"
                            /\ IsNA(j.rows[r][i]) => processed_df.rows[r][i] = Num(0)
                      /\ TextualRole(j.dtypes[i]) =>
                            /\ ~IsNA(processed_df.rows[r][i])
                            /\ IsNA(j.rows[r][i]) => processed_df.rows[r][i] = Str(Unknown)

C3_Witness ==
    /\ Returned
    /\ LET j == Joined
       IN /\ \E i \in 1..Len(processed_df.cols), r \in 1..Len(processed_df.rows) :
                /\ processed_df.cols[i] \notin DateTimeColumns
                /\ NumericRole(j.dtypes[i]) /\ IsNA(j.rows[r][i])
          /\ \E i \in 1..Len(processed_df.cols), r \in 1..Len(processed_df.rows) :
                /\ processed_df.cols[i] \notin DateTimeColumns
                /\ TextualRole(j.dtypes[i]) /\ IsNA(j.rows[r][i])

\* a cell the join left missing or that does not parse under its column's format
Unparsable(name, c) ==
    \/ c.k \in {"na", "num", "bool"}
    \/ c.k = "str" /\ name \in DateColumns /\ c.s \notin DateLiterals
    \/ c.k = "str" /\ name \in TimeColumns /\ c.s \notin TimeLiterals

\* C4: in the returned table every cell of the six date/time columns is a
\* parsed date (date columns), a parsed time of day (time columns) or a
\* missing-marker; a cell that was missing or unparsable in the join is a
\* missing-marker, never 0 or "Unknown".
C4_DateTimeIndependence ==
    Returned =>
        LET j == Joined
        IN \A i \in 1..Len(processed_df.cols) :
              processed_df.cols[i] \in DateTimeColumns =>
                  \A r \in 1..Len(processed_df.rows) :
                      LET out == processed_df.rows[r][i]
                      IN /\ processed_df.cols[i] \in DateColumns => out.k \in {"ts", "na"}
                         /\ processed_df.cols[i] \in TimeColumns => out.k \in {"time", "na"}
                         /\ Unparsable(processed_df.cols[i], j.rows[r][i]) => IsNA(out)
                         /\ out \notin {Num(0), Str(Unknown)}

C4_Witness ==
    /\ Returned
    /\ LET j == Joined
       IN /\ \E i \in 1..Len(processed_df.cols), r \in 1..Len(processed_df.rows) :
                /\ processed_df.cols[i] \in DateColumns
                /\ IsNA(j.rows[r][i]) /\ j.dtypes[i] = "object"
                /\ IsNA(processed_df.rows[r][i])
          /\ \E i \in 1..Len(processed_df.cols), r \in 1..Len(processed_df.rows) :
                /\ processed_df.cols[i] \in TimeColumns
                /\ j.rows[r][i] = Str("late")
                /\ IsNA(processed_df.rows[r][i])
          /\ \E i \in 1..Len(processed_df.cols), r \in 1..Len(processed_df.rows) :
                /\ processed_df.cols[i] \in DateColumns
                /\ processed_df.rows[r][i].k = "ts"

\* C5: filling and converting a table that preprocess_data returned gives the
\* same table: parsed dates and times keep their values, missing-markers
\* stay missing-markers.
C5_Idempotence == Returned => Convert(Fill(processed_df)) = processed_df

C5_Witness ==
    /\ Returned
    /\ \E i \in 1..Len(processed_df.cols), r \in 1..Len(processed_df.rows) :
          processed_df.cols[i] \in TimeColumns /\ processed_df.rows[r][i].k = "time"
    /\ \E i \in 1..Len(processed_df.cols), r \in 1..Len(processed_df.rows) :
          processed_df.cols[i] \in TimeColumns /\ IsNA(processed_df.rows[r][i])
    /\ \E i \in 1..Len(processed_df.cols), r \in 1..Len(processed_df.rows) :
          processed_df.cols[i] \in DateColumns /\ processed_df.rows[r][i].k = "ts"
    /\ \E i \in 1..Len(processed_df.cols), r \in 1..Len(processed_df.rows) :
          processed_df.cols[i] \in DateColumns /\ IsNA(processed_df.rows[r][i])

Sentinel(c) == c \in {Num(0), Str(Unknown)}

\* column i of the merged table came from the forest / the grassland table
FromForest(i) == i <= Len(forest_df.cols) /\ forest_df.cols[i] # KeyColumn
FromGrassland(i) == i > Len(forest_df.cols)

KeyCell(df, r) == df.rows[r][ColIndex(df, KeyColumn)]

\* C6 as stated: for a key value present in only one input table, every
\* returned row with that key holds 0 or "Unknown" in every column that
\* originates from the other habitat.
C6_AsStated ==
    Returned =>
        LET fk == KeysOf(forest_df)
            gk == KeysOf(grassland_df)
        IN \A r \in 1..Len(processed_df.rows), i \in 1..Len(processed_df.cols) :
              LET k == KeyCell(processed_df, r)
              IN /\ (k \in fk \ gk /\ FromGrassland(i)) => Sentinel(processed_df.rows[r][i])
                 /\ (k \in gk \ fk /\ FromForest(i)) => Sentinel(processed_df.rows[r][i])

\* C6 amended: for a merged row whose key as joined (before the fill) occurs
\* in only one input table, the returned row holds the sentinel of the
\* column's role (0 numeric, "Unknown" textual) in every numeric-role or
\* textual-role column originating from the other habitat other than that
\* habitat's Date, Start_Time and End_Time columns, and a missing-marker in
\* those date/time columns.
C6_SentinelFill ==
    Returned =>
        LET j == Joined
            fk == KeysOf(forest_df)
            gk == KeysOf(grassland_df)
        IN \A r \in 1..Len(processed_df.rows), i \in 1..Len(processed_df.cols) :
              LET k == KeyCell(j, r)
                  other == \/ k \notin gk /\ FromGrassland(i)
                           \/ k \notin fk /\ FromForest(i)
                  out == processed_df.rows[r][i]
              IN other =>
                    IF processed_df.cols[i] \in DateTimeColumns THEN IsNA(out)
                    ELSE /\ NumericRole(j.dtypes[i]) => out = Num(0)
                         /\ TextualRole(j.dtypes[i]) => out = Str(Unknown)

C6_Witness ==
    /\ Returned
    /\ LET j == Joined
           fk == KeysOf(forest_df)
           gk == KeysOf(grassland_df)
       IN /\ \E r \in 1..Len(processed_df.rows), i \in 1..Len(processed_df.cols) :
                /\ KeyCell(j, r) \notin gk
                /\ FromGrassland(i) /\ processed_df.rows[r][i] = Str(Unknown)
          /\ \E r \in 1..Len(processed_df.rows), i \in 1..Len(processed_df.cols) :
                /\ KeyCell(j, r) \notin fk
                /\ FromForest(i) /\ processed_df.rows[r][i] = Num(0)
          /\ \E r \in 1..Len(processed_df.rows), i \in 1..Len(processed_df.cols) :
                /\ KeyCell(j, r) \notin fk
                /\ FromForest(i) /\ processed_df.cols[i] = "Date_forest"

\* number of columns of df named name
NameCount(df, name) == Cardinality({i \in 1..Len(df.cols) : df.cols[i] = name})

\* C9: the returned table has exactly one column AcceptedTSN and none named
\* AcceptedTSN_forest or AcceptedTSN_grassland; every other name present in
\* both inputs appears once with _forest and once with _grassland and not
\* bare; every name present in one input only appears once, unchanged; no
\* input column is dropped and none is added.
C9_Suffixing ==
    Returned =>
        LET l == Range(forest_df.cols)
            r == Range(grassland_df.cols)
        IN /\ NameCount(processed_df, "AcceptedTSN") = 1
           /\ NameCount(processed_df, "AcceptedTSN_forest") = 0
           /\ NameCount(processed_df, "AcceptedTSN_grassland") = 0
           /\ \A c \in (l \cap r) \ {"AcceptedTSN"} :
                 /\ NameCount(processed_df, c \o "_forest") = 1
                 /\ NameCount(processed_df, c \o "_grassland") = 1
                 /\ NameCount(processed_df, c) = 0
           /\ \A c \in (l \ r) \cup (r \ l) :
                 /\ NameCount(processed_df, c) = 1
                 /\ NameCount(processed_df, c \o "_forest") = 0
                 /\ NameCount(processed_df, c \o "_grassland") = 0
           /\ Len(processed_df.cols) = Len(forest_df.cols) + Len(grassland_df.cols) - 1

C9_Witness ==
    /\ Returned
    /\ "Observer" \in Range(processed_df.cols)
    /\ "Temperature" \in Range(processed_df.cols)
    /\ "Date_forest" \in Range(processed_df.cols)

\* C10: the conversion step raises only when one of the six expected
\* date/time columns is absent from the merged table, whatever the cells
\* hold; whenever one is absent it raises, and then nothing is returned.
C10_NormalizerFailure ==
    /\ (pc = "raised" /\ ~merged_df.none) =>
          \E c \in DateTimeColumns : ~HasCol(merged_df, c)
    /\ Returned => \A c \in DateTimeColumns : c \in Range(MergedCols(forest_df, grassland_df))
    /\ pc = "raised" => processed_df.none

C10_Witness ==
    /\ Returned
    /\ LET j == Joined
       IN /\ \E r \in 1..Len(j.rows), i \in 1..Len(j.cols) :
                j.cols[i] \in DateColumns /\ j.rows[r][i] = Str("not-a-date")
          /\ \E r \in 1..Len(j.rows), i \in 1..Len(j.cols) :
                j.cols[i] \in TimeColumns /\ j.rows[r][i] = Str(Unknown)
          /\ \E r \in 1..Len(j.rows), i \in 1..Len(j.cols) :
                j.cols[i] \in TimeColumns /\ IsNA(j.rows[r][i])

(***************************************************************************)
(* Properties of the script (checked under Spec)                           *)
(***************************************************************************)
LoadFailed == src_forest.status # "ok" \/ src_grassland.status # "ok"

\* C7 as stated: when either workbook cannot be found or read, load_data
\* reports the error and returns None for both habitats.
C7_AsStated ==
    (pc # "load" /\ LoadFailed) =>
        /\ forest_df.none
        /\ grassland_df.none
        /\ ui # <<>>

\* C8 as stated: after a load failure processed_df is None and every section
\* after the load step is skipped: none of them runs on processed_df, so
\* none renders or raises.
C8_AsStated ==
    (pc \notin {"load", "driver"} /\ LoadFailed) =>
        /\ processed_df.none
        /\ exc = "none"
        /\ \A i \in 1..Len(ui) : ui[i] \in {"error: Error loading file",
                                           "error: An error occurred during data loading",
                                           "error: Data loading failed"}

(***************************************************************************)
(* Further properties of preprocess_data (checked under SpecPre)           *)
(***************************************************************************)
\* some row of df has a missing key cell
HasMissingKey(df) == \E k \in KeysOf(df) : IsNA(k)

\* C11: every row of the table returned by preprocess_data has a non-missing
\* AcceptedTSN cell, also when input rows have a missing key cell.
C11_NonNullKey ==
    Returned =>
        LET ki == ColIndex(processed_df, KeyColumn)
        IN \A r \in 1..Len(processed_df.rows) : ~IsNA(processed_df.rows[r][ki])

C11_Witness ==
    /\ Returned
    /\ HasMissingKey(forest_df)
    /\ HasMissingKey(grassland_df)
    /\ Len(processed_df.rows) >= 2

\* the fill has run and the conversions have not
Filled == pc = "convert" /\ ~merged_df.none

\* C12 as stated: the fill gives every column of the merged table one of two
\* roles by its values, numeric if all its non-missing values are numbers and
\* textual otherwise, so that no column is outside both roles and no cell is
\* left missing by the fill.
C12_AsStated ==
    Filled =>
        LET j == Joined
        IN \A i \in 1..Len(j.cols) :
              /\ NumericRole(j.dtypes[i]) \/ TextualRole(j.dtypes[i])
              /\ NumericRole(j.dtypes[i]) =>
                    \A r \in 1..Len(j.rows) : j.rows[r][i].k \in {"num", "na"}
              /\ \A r \in 1..Len(merged_df.rows) : ~IsNA(merged_df.rows[r][i])

\* C12 amended: the roles follow the column's dtype. A numeric-dtype column
\* (all non-missing values numbers) is numeric-role, an object-dtype column
\* is textual-role, and the fill leaves no missing cell in either; a column
\* of datetime dtype has neither role and comes out of the fill as it went
\* in, missing cells included.
C12_RoleAssignment ==
    Filled =>
        LET j == Joined
        IN \A i \in 1..Len(j.cols) :
              /\ j.dtypes[i] \in {"number", "object", "datetime", "bool"}
              /\ ~(NumericRole(j.dtypes[i]) /\ TextualRole(j.dtypes[i]))
              /\ NumericRole(j.dtypes[i]) =>
                    /\ \A r \in 1..Len(j.rows) : j.rows[r][i].k \in {"num", "na"}
                    /\ \A r \in 1..Len(j.rows) : merged_df.rows[r][i].k = "num"
              /\ TextualRole(j.dtypes[i]) =>
                    \A r \in 1..Len(j.rows) : ~IsNA(merged_df.rows[r][i])
              /\ j.dtypes[i] \in {"datetime", "bool"} =>
                    \A r \in 1..Len(j.rows) : merged_df.rows[r][i] = j.rows[r][i]

C12_Witness ==
    /\ Filled
    /\ \E i \in 1..Len(merged_df.cols), r \in 1..Len(merged_df.rows) :
          /\ merged_df.dtypes[i] = "datetime"
          /\ IsNA(merged_df.rows[r][i])
    /\ \E i \in 1..Len(merged_df.cols) : merged_df.dtypes[i] = "number"
    /\ \E i \in 1..Len(merged_df.cols) : merged_df.dtypes[i] = "object"

\* both tables were passed and one of them has no key column
KeyAbsent ==
    /\ ~forest_df.none /\ ~grassland_df.none
    /\ ~HasCol(forest_df, KeyColumn) \/ ~HasCol(grassland_df, KeyColumn)

\* C15: when the forest or the grassland table has no AcceptedTSN column,
\* preprocess_data fails at the join: it returns no merged table, and neither
\* the fill nor the conversion step runs.
C15_MissingJoinKey ==
    KeyAbsent =>
        /\ pc \in {"pre_check", "merge", "raised"}
        /\ merged_df.none
        /\ processed_df.none
        /\ pc = "raised" => exc = "KeyError"

C15_Witness ==
    /\ KeyAbsent
    /\ pc = "raised"
    /\ HasCol(forest_df, KeyColumn)
    /\ Len(forest_df.rows) >= 1 /\ Len(grassland_df.rows) >= 1

\* C16: the fill changes missing cells only. Every cell that was not missing
\* after the join keeps its value, and the fill leaves the number of rows,
\* their order and the columns as they were.
C16_ImputationFrame ==
    Filled =>
        LET j == Joined
        IN /\ merged_df.cols = j.cols
           /\ merged_df.dtypes = j.dtypes
           /\ Len(merged_df.rows) = Len(j.rows)
           /\ \A r \in 1..Len(j.rows) :
                 /\ Len(merged_df.rows[r]) = Len(j.rows[r])
                 /\ \A i \in 1..Len(j.cols) :
                       ~IsNA(j.rows[r][i]) => merged_df.rows[r][i] = j.rows[r][i]

\* a numeric column [5, missing, 3] comes out as [5, 0, 3]
C16_Witness ==
    /\ Filled
    /\ HasCol(merged_df, "Temperature_forest")
    /\ Column(Joined, "Temperature_forest") = <<Num(5), NA, Num(3)>>
    /\ Column(merged_df, "Temperature_forest") = <<Num(5), Num(0), Num(3)>>

(***************************************************************************)
(* Further properties of the script (checked under Spec)                   *)
(***************************************************************************)
\* positions of the script after preprocess_data has returned
AfterNormalization ==
    {"returned", "temporal", "spatial", "observer", "environment", "conservation",
     "distance", "flyover", "id_method", "done", "raised"}

FeatureColumns == <<"Year", "Month", "Season">>

\* new is old with the feature columns appended and nothing else changed
AppendsFeatures(old, new) ==
    /\ new.cols = old.cols \o FeatureColumns
    /\ SubSeq(new.dtypes, 1, Len(old.dtypes)) = old.dtypes
    /\ Len(new.rows) = Len(old.rows)
    /\ \A r \in 1..Len(old.rows) : SubSeq(new.rows[r], 1, Len(old.cols)) = old.rows[r]

\* C13 as stated: once preprocess_data has returned the table, no later step
\* of the script adds, removes or changes a column or a cell of processed_df.
C13_AsStated ==
    [][(pc \in AfterNormalization /\ ~processed_df.none) =>
          processed_df' = processed_df]_vars

\* C13 amended: once preprocess_data has returned the table, the only step
\* that changes processed_df is the temporal section, which appends the
\* columns Year, Month and Season; the columns, cells and rows the table
\* already had stay as they are, and every other step only reads it.
C13_FrameAfterNormalization ==
    [][(pc \in AfterNormalization /\ ~processed_df.none) =>
          \/ processed_df' = processed_df
          \/ pc = "temporal" /\ AppendsFeatures(processed_df, processed_df')]_vars

C13_Witness ==
    /\ pc = "spatial"
    /\ ~processed_df.none
    /\ AppendsFeatures(merged_df, processed_df)
    /\ Len(processed_df.rows) >= 2

\* number of rows in the sheets before sheet k
RECURSIVE RowsBefore(_, _)
RowsBefore(sheets, k) ==
    IF k <= 1 THEN 0 ELSE RowsBefore(sheets, k - 1) + Len(sheets[k - 1])

\* df has the rows of every sheet of src, sheet after sheet, each in its place
HoldsEverySheet(df, src) ==
    /\ Len(df.rows) = RowsBefore(src.sheets, Len(src.sheets) + 1)
    /\ \A k \in 1..Len(src.sheets) :
          \A i \in 1..Len(src.sheets[k]) :
              df.rows[RowsBefore(src.sheets, k) + i] = src.sheets[k][i]

\* C14: a table load_data returns holds every row of every sheet of its
\* workbook exactly once, in sheet order and then in the order within the
\* sheet, duplicates included; its row count is the sum of the sheets' row
\* counts.
C14_LoaderConcatenation ==
    pc # "load" =>
        /\ ~forest_df.none => HoldsEverySheet(forest_df, src_forest)
        /\ ~grassland_df.none => HoldsEverySheet(grassland_df, src_grassland)

C14_Witness ==
    /\ pc = "driver"
    /\ ~forest_df.none /\ ~grassland_df.none
    /\ Len(src_forest.sheets) = 2
    /\ src_forest.sheets[1] = src_forest.sheets[2]
    /\ Len(forest_df.rows) = 4
    /\ Len(src_grassland.sheets) = 2
    /\ Len(grassland_df.rows) = 3

\* the temporal section has run on a table
HasSeasons == ~processed_df.none /\ HasCol(processed_df, "Season")

Seasons == {Str("Winter"), Str("Spring"), Str("Summer"), Str("Autumn")}

\* the season the claim gives month m
SeasonOfMonth(m) ==
    IF m \in {12, 1, 2} THEN Str("Winter")
    ELSE IF m \in {3, 4, 5} THEN Str("Spring")
    ELSE IF m \in {6, 7, 8} THEN Str("Summer")
    ELSE Str("Autumn")

\* Year, Month and Season of every row follow from its Date_forest cell alone,
\* and the seasonal table counts, per season, the distinct AcceptedTSN values
\* of the rows that have a forest date in that season; a row without a forest
\* date is in no group
SeasonsFromForestDate ==
    LET df == processed_df
        di == ColIndex(df, "Date_forest")
        yi == ColIndex(df, "Year")
        mi == ColIndex(df, "Month")
        si == ColIndex(df, "Season")
        ki == ColIndex(df, KeyColumn)
        t == seasonal_species_count(df)
    IN /\ \A m \in 1..12 : SeasonOf(Num(m)) = SeasonOfMonth(m)
       /\ \A r \in 1..Len(df.rows) :
             LET d == df.rows[r][di]
             IN IF IsNA(d)
                   THEN /\ IsNA(df.rows[r][yi]) /\ IsNA(df.rows[r][mi])
                        /\ IsNA(df.rows[r][si])
                        /\ df.rows[r][si] \notin DOMAIN t
                   ELSE /\ df.rows[r][yi] = Num(d.n \div 10000)
                        /\ df.rows[r][mi] = Num((d.n \div 100) % 100)
                        /\ df.rows[r][mi].n \in 1..12
                        /\ df.rows[r][si] = SeasonOfMonth(df.rows[r][mi].n)
                        /\ df.rows[r][si] \in DOMAIN t
       /\ DOMAIN t \subseteq Seasons
       /\ \A g \in DOMAIN t :
             t[g] = Cardinality({df.rows[r][ki] :
                        r \in {q \in 1..Len(df.rows) :
                                  ~IsNA(df.rows[q][di]) /\ df.rows[q][si] = g}})

\* C17 as stated: Year, Month and Season come from Date_forest alone, a row
\* without a forest date is counted in no season, and so no species recorded
\* only in grassland contributes to a seasonal count.
C17_AsStated ==
    HasSeasons =>
        /\ SeasonsFromForestDate
        /\ \A k \in KeysOf(grassland_df) \ KeysOf(forest_df) :
              ~IsNA(k) =>
                  \A g \in SeasonGroups(processed_df) :
                      k \notin SeasonSpecies(processed_df, g)

\* C17 amended: Year, Month and Season come from Date_forest alone, a row
\* without a forest date is counted in no season, and so no merged row that
\* the join built from grassland rows alone contributes to a seasonal count.
C17_SeasonDerivation ==
    HasSeasons =>
        /\ SeasonsFromForestDate
        /\ LET j == Joined
               jk == ColIndex(j, KeyColumn)
               fk == KeysOf(forest_df)
               si == ColIndex(processed_df, "Season")
           IN \A r \in 1..Len(j.rows) :
                 j.rows[r][jk] \notin fk => IsNA(processed_df.rows[r][si])

C17_Witness ==
    /\ pc = "spatial"
    /\ HasSeasons
    /\ Cardinality(SeasonGroups(processed_df)) >= 2
    /\ \E r \in 1..Len(processed_df.rows) :
          IsNA(processed_df.rows[r][ColIndex(processed_df, "Date_forest")])
    /\ \E k \in KeysOf(grassland_df) \ KeysOf(forest_df) : ~IsNA(k)

\* report t over column col of the table leaves out the sentinel group and
\* gives every other value of the column the number of distinct keys of the
\* rows holding it
ExcludesSentinel(t, col, sentinel) ==
    LET df == processed_df
        ci == ColIndex(df, col)
        ki == ColIndex(df, KeyColumn)
    IN /\ sentinel \notin DOMAIN t
       /\ DOMAIN t = {df.rows[r][ci] : r \in 1..Len(df.rows)} \ {sentinel}
       /\ \A g \in DOMAIN t :
             t[g] = Cardinality({df.rows[r][ki] :
                        r \in {q \in 1..Len(df.rows) : df.rows[q][ci] = g}})

\* the table the observer and environment sections report on
Reported ==
    /\ pc \in {"conservation", "distance", "flyover", "id_method", "done"}
    /\ ~processed_df.none

\* C18: the unique-species reports by observer have no group "Unknown" and
\* those by temperature no group 0, whether the 0 was recorded or imputed;
\* every other value of the grouping column has a group, whose count is the
\* number of distinct AcceptedTSN values among the rows with that value.
C18_SentinelGroups ==
    Reported =>
        /\ ExcludesSentinel(observer_species_count_forest(processed_df),
                            "Observer_forest", Str(Unknown))
        /\ ExcludesSentinel(observer_species_count_grassland(processed_df),
                            "Observer_grassland", Str(Unknown))
        /\ ExcludesSentinel(avg_species_temp_forest(processed_df),
                            "Temperature_forest", Num(0))
        /\ ExcludesSentinel(avg_species_temp_grassland(processed_df),
                            "Temperature_grassland", Num(0))

C18_Witness ==
    /\ Reported
    /\ LET j == Joined
           tf == Column(j, "Temperature_forest")
           og == Column(processed_df, "Observer_grassland")
       IN /\ \E r \in 1..Len(tf) : tf[r] = Num(0)
          /\ \E r \in 1..Len(tf) : IsNA(tf[r])
          /\ \E r \in 1..Len(og) : og[r] = Str(Unknown)
          /\ avg_species_temp_forest(processed_df) # <<>>
          /\ observer_species_count_grassland(processed_df) # <<>>

\* the temporal section has built filtered_df
Filtered == ~processed_df.none /\ ~filtered_df.none

\* the rows of df that have a start time in at least one habitat
WithSomeStartTime(df) ==
    LET fi == ColIndex(df, "Start_Time_forest")
        gi == ColIndex(df, "Start_Time_grassland")
    IN SelectSeq(df.rows, LAMBDA row : ~IsNA(row[fi]) \/ ~IsNA(row[gi]))

\* C19: every row of filtered_df has a start time in at least one habitat;
\* filtered_df holds exactly the rows of processed_df that have one, in their
\* order, so the comparison with "Unknown" removes none of them, and no
\* start-time cell of the normalized table is "Unknown".
C19_ObservationTimeFilter ==
    Filtered =>
        LET fi == ColIndex(filtered_df, "Start_Time_forest")
            gi == ColIndex(filtered_df, "Start_Time_grassland")
            n == Len(processed_df.cols)
            kept == WithSomeStartTime(processed_df)
        IN /\ \A r \in 1..Len(filtered_df.rows) :
                 ~IsNA(filtered_df.rows[r][fi]) \/ ~IsNA(filtered_df.rows[r][gi])
           /\ Len(filtered_df.rows) = Len(kept)
           /\ \A r \in 1..Len(kept) : SubSeq(filtered_df.rows[r], 1, n) = kept[r]
           /\ \A r \in 1..Len(processed_df.rows) :
                 /\ processed_df.rows[r][fi] # Str(Unknown)
                 /\ processed_df.rows[r][gi] # Str(Unknown)

C19_Witness ==
    /\ Filtered
    /\ pc = "spatial"
    /\ Len(filtered_df.rows) >= 1
    /\ Len(filtered_df.rows) < Len(processed_df.rows)
    /\ LET j == Joined
       IN \E r \in 1..Len(j.rows) :
             j.rows[r][ColIndex(j, "Start_Time_forest")] = Str(Unknown)

(***************************************************************************)
(* Properties of birds.py (checked under SpecBirds)                        *)
(***************************************************************************)
BothRead == FOREST_FILE.status = "ok" /\ GRASSLAND_FILE.status = "ok"

Rendering == {"metrics", "tab_forest", "tab_grassland", "birds_done"}

BirdsErrors ==
    {"error: Data files not found",
     "error: An error occurred during data loading or preprocessing"}

HasRequired(df, suffix) ==
    \A c \in {"Common_Name", "ID_Method", "Flyover_Observed", "Plot_Name"} :
        HasCol(df, c \o suffix)

NonIncreasing(entries) ==
    \A i \in 1..Len(entries), j \in 1..Len(entries) :
        i < j => entries[i][2] >= entries[j][2]

UnknownInAnyCase == {Str("unknown"), Str("Unknown"), Str("UNKNOWN")}

\* cs are the four analyses of the table, in order: at most TopN species,
\* largest count first, with their numbers of rows and no species left out
\* that was seen more often than a listed one; the ID methods; the flyover
\* statuses other than "unknown", with their numbers of rows; at most TopN
\* plots, largest number of distinct species first
FourAnalyses(cs, df, habitat_name, suffix) ==
    LET names == Column(df, "Common_Name" \o suffix)
        fly == Column(df, "Flyover_Observed" \o suffix)
        plots == Column(df, "Plot_Name" \o suffix)
        rows == 1..Len(df.rows)
        top == cs[1].data
        flown == cs[3].data
        div == cs[4].data
        Seen(v) == Cardinality({r \in rows : names[r] = v})
    IN /\ Len(cs) = 4
       /\ cs[1].title = "Top 10 Species in " \o habitat_name
       /\ cs[2].title = "Unique Species by ID Method " \o habitat_name
       /\ cs[3].title = "Flyover Observation Counts " \o habitat_name
       /\ cs[4].title = "Top 10 Plots " \o habitat_name
       /\ Len(top) <= TopN
       /\ NonIncreasing(top)
       /\ \A i \in 1..Len(top) : ~IsNA(top[i][1]) /\ top[i][2] = Seen(top[i][1])
       /\ \A i \in 1..Len(top), j \in 1..Len(top) : i # j => top[i][1] # top[j][1]
       /\ \A v \in (Range(names) \ {NA}) \ {top[i][1] : i \in 1..Len(top)} :
             /\ Len(top) = TopN
             /\ \A i \in 1..Len(top) : Seen(v) <= top[i][2]
       /\ \A i \in 1..Len(flown) :
             /\ flown[i][1] \notin UnknownInAnyCase
             /\ flown[i][2] = Cardinality({r \in rows : fly[r] = flown[i][1]})
       /\ {flown[i][1] : i \in 1..Len(flown)} = (Range(fly) \ {NA}) \ UnknownInAnyCase
       /\ Len(div) <= TopN
       /\ NonIncreasing(div)
       /\ \A i \in 1..Len(div) :
             div[i][2] = Cardinality({names[r] : r \in {q \in rows : plots[q] = div[i][1]}}
                                     \ {NA})

ForestWarning == "warning: Required columns not found in Forest"

GrasslandWarning == "warning: Required columns not found in Grassland"

\* C21: render_habitat_analysis draws all four analyses of a habitat or none.
\* If one of the four required columns is absent it gives the warning and
\* no chart; otherwise the flyover chart has no status "unknown" in any
\* letter case, and the top-species and top-plot charts have at most 10
\* entries, largest count first.
C21_RenderGuard ==
    pc \in {"tab_grassland", "birds_done"} =>
        LET nf == IF HasRequired(FOREST_DF, "_forest") THEN 4 ELSE 0
            ng == IF pc = "birds_done" /\ HasRequired(GRASSLAND_DF, "_grassland")
                  THEN 4 ELSE 0
        IN /\ Len(charts) = nf + ng
           /\ (ForestWarning \in Range(ui)) <=> (nf = 0)
           /\ nf = 4 => FourAnalyses(SubSeq(charts, 1, 4), FOREST_DF, "Forest", "_forest")
           /\ pc = "birds_done" =>
                 /\ (GrasslandWarning \in Range(ui)) <=> (ng = 0)
                 /\ ng = 4 => FourAnalyses(SubSeq(charts, nf + 1, nf + 4), GRASSLAND_DF,
                                           "Grassland", "_grassland")

C21_Witness ==
    /\ pc = "birds_done"
    /\ HasRequired(FOREST_DF, "_forest")
    /\ ~HasRequired(GRASSLAND_DF, "_grassland")
    /\ Len(charts) = 4
    /\ GrasslandWarning \in Range(ui)
    /\ Cardinality(Range(Column(FOREST_DF, "Common_Name_forest"))) > TopN
    /\ Len(charts[1].data) = TopN
    /\ charts[1].data[1][2] > charts[1].data[TopN][2]
    /\ Str("UNKNOWN") \in Range(Column(FOREST_DF, "Flyover_Observed_forest"))
    /\ Str("unknown") \in Range(Column(FOREST_DF, "Flyover_Observed_forest"))
    /\ Len(charts[3].data) >= 2

====
